---- MODULE Spec2Model ----
(***************************************************************************)
(* Model of src/frontend/check_model_performance.py: the reporting pass    *)
(* check_model_performance() over the three model directories, the         *)
(* filesystem it reads, the lines it prints and the summary it writes.     *)
(*                                                                         *)
(* Python values are tagged records (Num, Str, None).  A dict is modelled  *)
(* in insertion order: the loaded mapping as a sequence of items, the      *)
(* summary as a sequence of (key, info) entries.  File names are sequences *)
(* of character codes, so that substring tests and sorted() are computed   *)
(* as Python computes them.  Metric values are integers (a fixed-point     *)
(* reading of the floats the training stage stores).                       *)
(***************************************************************************)
EXTENDS Integers, Sequences, FiniteSets, TLC

\* ------------------------------------------------------------------ bounds

\* Largest number of sub-model entries in one loaded mapping.
MaxModels == 2

\* Metric scores range over 0..MaxScore.
MaxScore == 2

\* Number of invocations of the script in the rerun specification.
MaxRuns == 2

\* ----------------------------------------------------------- Python values

Num(n) == [t |-> "num", n |-> n, s |-> ""]
Str(s) == [t |-> "str", n |-> 0, s |-> s]
None == [t |-> "none", n |-> 0, s |-> ""]

\* best_f1 = 0 (line 33) and the default of every metrics.get(..., 0).
InitialBestF1 == 0
MissingDefault == 0

\* The hardcoded list of line 9, each path as its '/'-separated segments.
model_dirs == << <<"models", "k2">>, <<"models", "kepler">>, <<"models", "tess">> >>

\* model_dir.split('/')[-1]
ModelName(model_dir) == model_dir[Len(model_dir)]

\* 'model_results' and '.joblib' of line 21, as character codes.
MARKER == <<109, 111, 100, 101, 108, 95, 114, 101, 115, 117, 108, 116, 115>>
EXT == <<46, 106, 111, 98, 108, 105, 98>>

\* sub in s  (Python's substring test)
Contains(s, sub) ==
    \E k \in 0..(Len(s) - Len(sub)) : SubSeq(s, k + 1, k + Len(sub)) = sub

\* s.endswith(suffix)
EndsWith(s, suffix) ==
    /\ Len(s) >= Len(suffix)
    /\ SubSeq(s, Len(s) - Len(suffix) + 1, Len(s)) = suffix

\* 'model_results' in file and file.endswith('.joblib')
IsResultsFile(file) == Contains(file, MARKER) /\ EndsWith(file, EXT)

\* The scan of lines 19-23: the first matching entry of the listing, joined to
\* the directory; None when no entry matches.
RECURSIVE FirstMatch(_, _)
FirstMatch(listing, k) ==
    IF k > Len(listing) THEN <<>>
    ELSE IF IsResultsFile(listing[k]) THEN listing[k]
    ELSE FirstMatch(listing, k + 1)

\* Python's order on str: lexicographic on code points, a proper prefix first.
RECURSIVE StrLess(_, _)
StrLess(a, b) ==
    IF Len(b) = 0 THEN FALSE
    ELSE IF Len(a) = 0 THEN TRUE
    ELSE IF a[1] # b[1] THEN a[1] < b[1]
    ELSE StrLess(Tail(a), Tail(b))

\* Insert x into the sorted sequence s (after equal elements: sorted is stable).
RECURSIVE Insert(_, _)
Insert(x, s) ==
    IF Len(s) = 0 THEN <<x>>
    ELSE IF StrLess(x, s[1]) THEN <<x>> \o s
    ELSE <<s[1]>> \o Insert(x, Tail(s))

RECURSIVE SortFrom(_, _, _)
SortFrom(s, k, acc) ==
    IF k > Len(s) THEN acc ELSE SortFrom(s, k + 1, Insert(s[k], acc))

\* Mutant of Sorted: the listing is printed in the order os.listdir gave.
Unsorted(s) == s

\* sorted(files_in_dir) of line 67
Sorted(s) == SortFrom(s, 1, <<>>)

\* --------------------------------------------------------- best-model scan

\* The seven metric fields, in the order model_info is built (lines 41-49).
MetricKeys ==
    <<"accuracy", "precision", "recall", "f1_score", "roc_auc", "cv_mean", "cv_std">>

InfoKeys == <<"model_name">> \o MetricKeys

Range(s) == {s[k] : k \in DOMAIN s}

\* metrics.get(key, 0)
MetricsGet(d, key) == IF key \in DOMAIN d THEN d[key] ELSE Num(MissingDefault)

\* The dict literal of lines 40-49.
BuildModelInfo(name, d) ==
    [key \in Range(InfoKeys) |->
        IF key = "model_name" THEN Str(name) ELSE MetricsGet(d, key)]

\* model_info = {} (line 16)
EmptyInfo == [key \in {} |-> None]

\* Mutant of Better: >= in place of >.
BetterOrEqual(f1, best_f1) == f1 >= best_f1

\* metrics['f1_score'] > best_f1 (line 37), on numbers
Better(f1, best_f1) == f1 > best_f1

\* Locals at the start of the scan (lines 32-33 and 16).
ScanStart ==
    [best_model |-> None, best_f1 |-> InitialBestF1, model_info |-> EmptyInfo,
     exc |-> "none"]

\* Mutant of ScanStep: the new best record updates model_info in place, so a
\* field it lacks keeps the value of the record selected before.
ScanStepCarryOver(st, item) ==
    LET m == item.metrics IN
    IF ~(m.isdict /\ "f1_score" \in DOMAIN m.d) THEN st
    ELSE IF m.d["f1_score"].t # "num" THEN [st EXCEPT !.exc = "TypeError"]
    ELSE IF m.d["f1_score"].n > st.best_f1
         THEN [best_model |-> Str(item.name),
               best_f1 |-> m.d["f1_score"].n,
               model_info |->
                   [key \in Range(InfoKeys) |->
                       IF key = "model_name" THEN Str(item.name)
                       ELSE IF key \in DOMAIN m.d THEN m.d[key]
                       ELSE IF key \in DOMAIN st.model_info THEN st.model_info[key]
                       ELSE Num(MissingDefault)],
               exc |-> "none"]
         ELSE st

\* One iteration of the loop of lines 35-49.  Comparing a str with a number
\* raises TypeError.
ScanStep(st, item) ==
    LET m == item.metrics IN
    IF ~(m.isdict /\ "f1_score" \in DOMAIN m.d) THEN st
    ELSE IF m.d["f1_score"].t # "num" THEN [st EXCEPT !.exc = "TypeError"]
    ELSE IF Better(m.d["f1_score"].n, st.best_f1)
         THEN [best_model |-> Str(item.name),
               best_f1 |-> m.d["f1_score"].n,
               model_info |-> BuildModelInfo(item.name, m.d),
               exc |-> "none"]
         ELSE st

RECURSIVE ScanFrom(_, _, _)
ScanFrom(items, k, st) ==
    IF k > Len(items) \/ st.exc # "none" THEN st
    ELSE ScanFrom(items, k + 1, ScanStep(st, items[k]))

\* Lines 32-49 over results_data.items().
Scan(items) == ScanFrom(items, 1, ScanStart)

\* ------------------------------------------------------------ printed lines

\* One printed line: its kind, a text key, the path it names (directory
\* segments and file name) and up to two formatted values.
Line(kind, key, dir, file, v, w) ==
    [kind |-> kind, key |-> key, dir |-> dir, file |-> file, v |-> v, w |-> w]

\* os.path.join(model_dir, file)
PathJoin(model_dir, file) == [dir |-> model_dir, file |-> file]

\* results_file = None (line 19)
NoFile == [dir |-> <<>>, file |-> <<>>]

\* The five fields printed with a percentage (lines 52-56), in print order.
PrintedKeys == <<"accuracy", "precision", "recall", "f1_score", "roc_auc">>

\* x*100 of the percentage column
Percent(x) == x * 100

\* The k-th print of lines 52-57 against model_info: the line, or the
\* exception the f-string raises (KeyError on a missing key, ValueError on
\* the 'f' format of a str).
MetricLine(info, k) ==
    IF k <= Len(PrintedKeys)
    THEN LET key == PrintedKeys[k] IN
         IF key \notin DOMAIN info THEN [exc |-> "KeyError", line |-> None]
         ELSE IF info[key].t # "num" THEN [exc |-> "ValueError", line |-> None]
         ELSE [exc |-> "none",
               line |-> Line("metric", key, <<>>, <<>>,
                             info[key], Num(Percent(info[key].n)))]
    ELSE IF "cv_mean" \notin DOMAIN info \/ "cv_std" \notin DOMAIN info
         THEN [exc |-> "KeyError", line |-> None]
    ELSE IF info["cv_mean"].t # "num" \/ info["cv_std"].t # "num"
         THEN [exc |-> "ValueError", line |-> None]
    ELSE [exc |-> "none",
          line |-> Line("cv", "cv_mean", <<>>, <<>>, info["cv_mean"], info["cv_std"])]

\* Lines 52-57 in order; stops at the first print that raises.
RECURSIVE PrintFrom(_, _, _)
PrintFrom(info, k, acc) ==
    IF k > Len(PrintedKeys) + 1 THEN [out |-> acc, exc |-> "none"]
    ELSE LET r == MetricLine(info, k) IN
         IF r.exc # "none" THEN [out |-> acc, exc |-> r.exc]
         ELSE PrintFrom(info, k + 1, Append(acc, r.line))

\* results[model_name] = model_info on the insertion-ordered dict.
DictSet(dict, key, info) ==
    IF \E k \in DOMAIN dict : dict[k].key = key
    THEN [k \in DOMAIN dict |->
            IF dict[k].key = key THEN [key |-> key, info |-> info] ELSE dict[k]]
    ELSE Append(dict, [key |-> key, info |-> info])

\* Mutant of IsMapping: the isinstance test is left out.
IsMappingAlways(art) == TRUE

\* isinstance(results_data, dict) (line 30)
IsMapping(art) == art.kind = "dict"

\* Lines 31-59: scan, report and record, given a loaded mapping.
ReportMapping(model_name, art, res) ==
    LET st == Scan(art.items) IN
    IF st.exc # "none"
    THEN [out |-> <<>>, exc |-> st.exc, results |-> res, model_info |-> st.model_info]
    ELSE LET best == Line("best", model_name, <<>>, <<>>, st.best_model, None)
             pr == PrintFrom(st.model_info, 1, <<best>>)
         IN [out |-> pr.out, exc |-> pr.exc,
             results |-> IF pr.exc = "none"
                         THEN DictSet(res, model_name, st.model_info) ELSE res,
             model_info |-> st.model_info]

\* The try body, lines 27-59: joblib.load raises, or the header is printed
\* and a mapping is reported.
TryBody(model_name, art, res) ==
    IF art.kind = "raises"
    THEN [out |-> <<>>, exc |-> "LoadError", results |-> res, model_info |-> EmptyInfo]
    ELSE LET header == Line("perf_header", model_name, <<>>, <<>>, None, None) IN
         IF IsMapping(art)
         THEN LET r == ReportMapping(model_name, art, res) IN
              [r EXCEPT !.out = <<header>> \o r.out]
         ELSE [out |-> <<header>>, exc |-> "none", results |-> res,
               model_info |-> EmptyInfo]

\* Mutant of Handled: only the failure of joblib.load is caught.
HandledLoadErrorOnly(results_file, r) ==
    IF r.exc # "LoadError" THEN r
    ELSE [r EXCEPT !.out = Append(r.out,
              Line("error", r.exc, results_file.dir, results_file.file, None, None)),
                   !.exc = "none"]

\* Mutant of Handled: the exception is swallowed without a line.
HandledSilently(results_file, r) == [r EXCEPT !.exc = "none"]

\* except Exception as e (lines 61-62): every exception of the try body is
\* caught and reported with the file path.
Handled(results_file, r) ==
    IF r.exc = "none" THEN r
    ELSE [r EXCEPT !.out = Append(r.out,
              Line("error", r.exc, results_file.dir, results_file.file, None, None)),
                   !.exc = "none"]

\* Lines 25-62 for one directory: nothing when no results file was found.
LoadAndReport(model_name, results_file, art, res) ==
    IF results_file = NoFile
    THEN [out |-> <<>>, exc |-> "none", results |-> res, model_info |-> EmptyInfo]
    ELSE Handled(results_file, TryBody(model_name, art, res))

\* Lines 65-68: the header naming the directory, then the entries sorted.
ListingLines(model_dir, files_in_dir) ==
    LET s == Sorted(files_in_dir) IN
    <<Line("files_header", "", model_dir, <<>>, None, None)>>
    \o [k \in DOMAIN s |-> Line("file", "", <<>>, s[k], None, None)]

\* json.dump(results, f, indent=2): one line per key (depth 1) followed by
\* one line per field of its entry (depth 2), in insertion order.
RECURSIVE JsonDumpFrom(_, _)
JsonDumpFrom(dict, k) ==
    IF k > Len(dict) THEN <<>>
    ELSE <<[depth |-> 1, key |-> dict[k].key, val |-> None]>>
         \o [j \in DOMAIN InfoKeys |->
                [depth |-> 2, key |-> InfoKeys[j], val |-> dict[k].info[InfoKeys[j]]]]
         \o JsonDumpFrom(dict, k + 1)

JsonDump(dict) == JsonDumpFrom(dict, 1)

\* ------------------------------------------------------- the filesystem read

\* File names met in a model directory.
ReadmeName == <<82, 69, 65, 68, 77, 69, 46, 109, 100>>
ResultsName == MARKER \o EXT
BestResultsName == <<98, 101, 115, 116, 95>> \o MARKER \o EXT
ResultsTxtName == MARKER \o <<46, 116, 120, 116>>
ScalerName == <<115, 99, 97, 108, 101, 114>> \o EXT

\* Sub-model names, taken in ascending or in descending order.
ModelNamePool == <<"A", "B", "C", "D">>

NameSeqs(n) ==
    { [k \in 1..n |-> ModelNamePool[k]], [k \in 1..n |-> ModelNamePool[n + 1 - k]] }

KeyIndex(key) == CHOOSE k \in DOMAIN MetricKeys : MetricKeys[k] = key

\* A metrics record with all seven fields, each optional field a value of
\* its own.
FullRecord(f1) ==
    [key \in Range(MetricKeys) |->
        IF key = "f1_score" THEN Num(f1) ELSE Num(KeyIndex(key))]

\* A metrics record with the f1_score field alone.
BareRecord(f1) == [key \in {"f1_score"} |-> Num(f1)]

\* A metrics record without f1_score.
NoF1Record == [key \in {"accuracy"} |-> Num(1)]

\* A full record with one field holding a string.
StrRecord(field) == [FullRecord(MaxScore) EXCEPT ![field] = Str("n/a")]

MetricsDicts ==
    {FullRecord(f1) : f1 \in 0..MaxScore}
    \cup {BareRecord(f1) : f1 \in {1, MaxScore}}
    \cup {NoF1Record}
    \cup {StrRecord(field) : field \in {"f1_score", "accuracy"}}

\* The values of the loaded mapping: metrics dicts, and one value that is
\* not a dict.
MetricsValues ==
    {[isdict |-> TRUE, d |-> d] : d \in MetricsDicts}
    \cup {[isdict |-> FALSE, d |-> EmptyInfo]}

ItemSeqs(n) ==
    { [k \in 1..n |-> [name |-> ns[k], metrics |-> ms[k]]] :
        ns \in NameSeqs(n), ms \in [1..n -> MetricsValues] }

\* What joblib.load makes of a results file: it raises, or returns a
\* non-mapping, or a mapping of at most MaxModels entries.
Raises == [kind |-> "raises", items |-> <<>>]
NonMapping == [kind |-> "list", items |-> <<>>]
Mapping(items) == [kind |-> "dict", items |-> items]

Mappings == UNION { {Mapping(items) : items \in ItemSeqs(n)} : n \in 0..MaxModels }

Artifacts == {Raises, NonMapping} \cup Mappings

\* One path of model_dirs on disk: absent, a regular file, or a directory
\* with its entries and what loading each would give.
Missing == [kind |-> "missing", files |-> {}, load |-> [f \in {} |-> Raises]]
NotADir == [kind |-> "file", files |-> {}, load |-> [f \in {} |-> Raises]]
Dir(files, load) == [kind |-> "dir", files |-> files, load |-> load]

\* A directory without a results file.
PlainDir == Dir({ScalerName, ResultsTxtName}, [f \in {ScalerName, ResultsTxtName} |-> Raises])

\* A directory with one results file.
ResultsDir(art) ==
    Dir({ResultsName, ReadmeName},
        [f \in {ResultsName, ReadmeName} |-> IF f = ResultsName THEN art ELSE Raises])

\* A directory with two results files.
TwoResultsDir(art1, art2) ==
    Dir({ResultsName, BestResultsName},
        [f \in {ResultsName, BestResultsName} |->
            IF f = ResultsName THEN art1 ELSE art2])

Dirs == Range(model_dirs)

\* os.listdir: the entries in an arbitrary order.
Listings(files) ==
    {l \in [1..Cardinality(files) -> files] : Range(l) = files}

\* Directories the single-run specification places beside the one under study.
SimpleDirs ==
    {Missing, ResultsDir(Raises),
     ResultsDir(Mapping(<< [name |-> "A",
                            metrics |-> [isdict |-> TRUE, d |-> FullRecord(1)]] >>))}

AllDirs == {Missing, NotADir, PlainDir} \cup {ResultsDir(art) : art \in Artifacts}

\* Filesystems of the single-run specification: the path d holds any of
\* AllDirs, the other two paths any of SimpleDirs.
FileSystem(d, big, small) == [x \in Dirs |-> IF x = d THEN big ELSE small[x]]

\* Artifacts of the rerun specification.
RerunArtifacts ==
    {Raises,
     Mapping(<< [name |-> "A", metrics |-> [isdict |-> TRUE, d |-> FullRecord(MaxScore)]] >>),
     Mapping(<< [name |-> "B", metrics |-> [isdict |-> TRUE, d |-> BareRecord(1)]] >>)}

RerunDirs ==
    {Missing, NotADir, PlainDir}
    \cup {ResultsDir(art) : art \in RerunArtifacts}
    \cup {TwoResultsDir(a1, a2) : a1 \in RerunArtifacts, a2 \in RerunArtifacts}

\* ------------------------------------------------------------ state machine

VARIABLES
    fs,            \* the three paths on disk (read only)
    run,           \* number of the current invocation of the script
    pc,            \* "loop" | "done" | "crashed"
    i,             \* index into model_dirs of the next directory
    results_file,  \* local of the last iteration (lines 19-23)
    model_info,    \* local of the last iteration (lines 16, 40)
    results,       \* the summary being built (line 8)
    out,           \* the lines printed by the current invocation
    writes         \* what each invocation wrote to model_performance_summary.json

vars == <<fs, run, pc, i, results_file, model_info, results, out, writes>>

Start ==
    /\ run = 1
    /\ pc = "loop"
    /\ i = 1
    /\ results_file = NoFile
    /\ model_info = EmptyInfo
    /\ results = <<>>
    /\ out = <<>>
    /\ writes = <<>>

Init ==
    /\ \E d \in Dirs, big \in AllDirs :
         \E small \in [Dirs \ {d} -> SimpleDirs] : fs = FileSystem(d, big, small)
    /\ Start

InitRerun == fs \in [Dirs -> RerunDirs] /\ Start

InLoop == pc = "loop" /\ i <= Len(model_dirs)

\* Mutant of SkipMissingDir: the listing header is printed before the
\* existence test.
SkipMissingDirListed ==
    /\ pc = "loop" /\ i <= Len(model_dirs)
    /\ fs[model_dirs[i]].kind = "missing"
    /\ i' = i + 1
    /\ out' = Append(out, Line("files_header", "", model_dirs[i], <<>>, None, None))
    /\ UNCHANGED <<fs, run, pc, results_file, model_info, results, writes>>

\* Lines 12-13: the path does not exist.
SkipMissingDir ==
    /\ InLoop
    /\ fs[model_dirs[i]].kind = "missing"
    /\ i' = i + 1
    /\ UNCHANGED <<fs, run, pc, results_file, model_info, results, out, writes>>

\* Line 20 on a path that exists but is no directory: os.listdir raises
\* outside the try block and the run ends.
ListDirFails ==
    /\ InLoop
    /\ fs[model_dirs[i]].kind = "file"
    /\ pc' = "crashed"
    /\ results_file' = NoFile
    /\ model_info' = EmptyInfo
    /\ UNCHANGED <<fs, run, i, results, out, writes>>

\* Lines 15-68 for an existing directory: find the results file in the
\* listing, load and report it, then list the directory.  An exception that
\* leaves the try statement uncaught ends the run before the listing.
ProcessDir ==
    /\ InLoop
    /\ fs[model_dirs[i]].kind = "dir"
    /\ LET model_dir == model_dirs[i]
           d == fs[model_dir]
       IN \E listing \in Listings(d.files), files_in_dir \in Listings(d.files) :
            LET file == FirstMatch(listing, 1)
                rf == IF file = <<>> THEN NoFile ELSE PathJoin(model_dir, file)
                art == IF file = <<>> THEN Raises ELSE d.load[file]
                r == LoadAndReport(ModelName(model_dir), rf, art, results)
            IN /\ results_file' = rf
               /\ model_info' = r.model_info
               /\ results' = r.results
               /\ IF r.exc = "none"
                  THEN /\ out' = out \o r.out \o ListingLines(model_dir, files_in_dir)
                       /\ i' = i + 1
                       /\ pc' = pc
                  ELSE /\ out' = out \o r.out
                       /\ i' = i
                       /\ pc' = "crashed"
    /\ UNCHANGED <<fs, run, writes>>

\* Lines 70-75: write the summary, print the confirmation, return.
SaveSummary ==
    /\ pc = "loop"
    /\ i > Len(model_dirs)
    /\ writes' = Append(writes, JsonDump(results))
    /\ out' = Append(out, Line("saved", "", <<>>, <<>>, None, None))
    /\ pc' = "done"
    /\ UNCHANGED <<fs, run, i, results_file, model_info, results>>

\* The script is invoked again over the same filesystem.
RunAgain ==
    /\ pc = "done"
    /\ run < MaxRuns
    /\ run' = run + 1
    /\ pc' = "loop"
    /\ i' = 1
    /\ results_file' = NoFile
    /\ model_info' = EmptyInfo
    /\ results' = <<>>
    /\ out' = <<>>
    /\ UNCHANGED <<fs, writes>>

Next == SkipMissingDir \/ ListDirFails \/ ProcessDir \/ SaveSummary

NextRerun == Next \/ RunAgain

Spec == Init /\ [][Next]_vars

SpecRerun == InitRerun /\ [][NextRerun]_vars

\* ------------------------------------------------------- reading the inputs

\* The directory has the results file.
HasResults(dst) == dst.kind = "dir" /\ ResultsName \in dst.files

\* What loading that results file gives.
ArtifactOf(dst) == dst.load[ResultsName]

HasMapping(dst) == HasResults(dst) /\ ArtifactOf(dst).kind = "dict"

IsF1Item(item) == item.metrics.isdict /\ "f1_score" \in DOMAIN item.metrics.d

\* Positions of the entries that are metrics dicts with an f1_score field.
F1Items(art) == {k \in DOMAIN art.items : IsF1Item(art.items[k])}

F1Numeric(art) ==
    \A k \in F1Items(art) : art.items[k].metrics.d["f1_score"].t = "num"

AllNumeric(art) ==
    \A k \in DOMAIN art.items :
        \A key \in DOMAIN art.items[k].metrics.d :
            art.items[k].metrics.d[key].t = "num"

F1At(art, k) == art.items[k].metrics.d["f1_score"].n

\* The largest f1_score of the mapping (F1Items non-empty, all numeric).
MaxF1(art) ==
    CHOOSE m \in {F1At(art, k) : k \in F1Items(art)} :
        \A k \in F1Items(art) : F1At(art, k) <= m

\* The first position that holds the largest f1_score.
FirstMax(art) ==
    CHOOSE k \in F1Items(art) :
        /\ F1At(art, k) = MaxF1(art)
        /\ \A j \in F1Items(art) : F1At(art, j) = MaxF1(art) => k <= j

\* The summary entries recorded under a directory's name.
EntriesFor(d) == {e \in Range(results) : e.key = ModelName(d)}

\* The directory at hand, and the lines a step prints.
Cur == fs[model_dirs[i]]
NewLines == SubSeq(out', Len(out) + 1, Len(out'))
HasKind(lines, kind) == \E p \in DOMAIN lines : lines[p].kind = kind
ErrorLines(lines) == {p \in DOMAIN lines : lines[p].kind = "error"}

\* The step went on to the next directory of the list.
GoesOn == pc' = "loop" /\ i' = i + 1

\* a sorts strictly before b: a proper prefix, or smaller at the first
\* position where they differ.
LexBefore(a, b) ==
    \/ Len(a) < Len(b) /\ SubSeq(b, 1, Len(a)) = a
    \/ \E j \in 1..Len(a) :
          /\ j <= Len(b)
          /\ SubSeq(a, 1, j - 1) = SubSeq(b, 1, j - 1)
          /\ a[j] < b[j]

\* -------------------------------------------------------------------- C1
\* C1: every processed directory whose results file loads as a mapping with
\* at least one metrics record carrying f1_score (all values numeric) has a
\* summary entry naming a sub-model of maximal f1_score, with that f1_score.
C1_BestModelRecorded ==
    \A k \in DOMAIN model_dirs :
        LET d == model_dirs[k] IN
        (/\ k < i
         /\ HasMapping(fs[d])
         /\ F1Items(ArtifactOf(fs[d])) # {}
         /\ AllNumeric(ArtifactOf(fs[d])))
        => LET art == ArtifactOf(fs[d]) IN
           \E e \in EntriesFor(d) :
              /\ e.info["f1_score"] = Num(MaxF1(art))
              /\ \E j \in F1Items(art) :
                    /\ F1At(art, j) = MaxF1(art)
                    /\ e.info["model_name"] = Str(art.items[j].name)

\* -------------------------------------------------------------------- C2
\* C2: processing a directory whose mapping has no entry with an f1_score
\* field prints no Best Model line, no metrics line and no error line, and
\* records no summary entry.
C2_SilentNoOp ==
    [][ (InLoop /\ HasMapping(Cur) /\ F1Items(ArtifactOf(Cur)) = {})
        => /\ ~HasKind(NewLines, "best")
           /\ ~HasKind(NewLines, "metric")
           /\ ~HasKind(NewLines, "cv")
           /\ ~HasKind(NewLines, "error")
           /\ results' = results ]_vars

\* -------------------------------------------------------------------- C3
\* A mapping whose report raises on a string: some f1_score holds a string,
\* or the selected best record holds a string in a metric field.
StringRaises(art) ==
    \/ ~F1Numeric(art)
    \/ /\ F1Items(art) # {}
       /\ MaxF1(art) > 0
       /\ \E key \in DOMAIN art.items[FirstMax(art)].metrics.d :
             art.items[FirstMax(art)].metrics.d[key].t = "str"

\* C3 as claimed: a metrics record with a string where a number is expected
\* is not caught, and the failure ends the run.
C3_StringPropagates ==
    [][ (InLoop /\ HasMapping(Cur) /\ StringRaises(ArtifactOf(Cur)))
        => pc' = "crashed" ]_vars

\* C3 as amended: the failure is caught by the except clause: one error line
\* with the file path is printed, no summary entry is recorded, the
\* directory is listed and the run goes on to the next directory.
C3_StringCaught ==
    [][ (InLoop /\ HasMapping(Cur) /\ StringRaises(ArtifactOf(Cur)))
        => /\ GoesOn
           /\ results' = results
           /\ Cardinality(ErrorLines(NewLines)) = 1
           /\ \A p \in ErrorLines(NewLines) :
                 /\ NewLines[p].dir = model_dirs[i]
                 /\ NewLines[p].file = ResultsName
           /\ HasKind(NewLines, "files_header") ]_vars

C3_Witness ==
    /\ pc = "done"
    /\ Len(writes) = 1
    /\ \E k \in DOMAIN model_dirs :
          /\ HasMapping(fs[model_dirs[k]])
          /\ StringRaises(ArtifactOf(fs[model_dirs[k]]))
          /\ EntriesFor(model_dirs[k]) = {}
          /\ \E p \in DOMAIN out :
                out[p].kind = "error" /\ out[p].dir = model_dirs[k]
          /\ \E j \in DOMAIN model_dirs : j > k /\ EntriesFor(model_dirs[j]) # {}

\* -------------------------------------------------------------------- C4
\* C4: when loading the results file raises, the step prints, before the
\* listing, exactly one error line naming the file path and nothing else,
\* leaves the summary as it was (as a directory without results file does)
\* and goes on to the next directory; a finished run has written the summary.
C4_LoadFailureSkipped ==
    /\ [][ (InLoop /\ HasResults(Cur) /\ ArtifactOf(Cur) = Raises)
           => /\ GoesOn
              /\ results' = results
              /\ Len(NewLines) >= 1
              /\ NewLines[1].kind = "error"
              /\ NewLines[1].dir = model_dirs[i]
              /\ NewLines[1].file = ResultsName
              /\ ErrorLines(NewLines) = {1}
              /\ ~HasKind(NewLines, "perf_header")
              /\ HasKind(NewLines, "files_header") ]_vars
    /\ [](pc = "done" => Len(writes) = run)

C4_Witness ==
    /\ pc = "done"
    /\ Len(writes) = 1
    /\ \E k \in DOMAIN model_dirs :
          /\ HasResults(fs[model_dirs[k]])
          /\ ArtifactOf(fs[model_dirs[k]]) = Raises
          /\ EntriesFor(model_dirs[k]) = {}
          /\ \E p \in DOMAIN out :
                /\ out[p].kind = "error"
                /\ out[p].dir = model_dirs[k]
                /\ out[p].file = ResultsName
          /\ \E j \in DOMAIN model_dirs : j > k /\ EntriesFor(model_dirs[j]) # {}

\* -------------------------------------------------------------------- C5
\* C5: a results file that loads as a non-mapping records no summary entry,
\* prints no error line, raises nothing out of the step, and the step lists
\* the directory and goes on to the next one.
C5_NonMappingSilent ==
    [][ (InLoop /\ HasResults(Cur) /\ ArtifactOf(Cur) = NonMapping)
        => /\ GoesOn
           /\ results' = results
           /\ ~HasKind(NewLines, "error")
           /\ ~HasKind(NewLines, "best")
           /\ HasKind(NewLines, "files_header") ]_vars

C5_Witness ==
    /\ pc = "done"
    /\ \E k \in DOMAIN model_dirs :
          /\ HasResults(fs[model_dirs[k]])
          /\ ArtifactOf(fs[model_dirs[k]]) = NonMapping
          /\ EntriesFor(model_dirs[k]) = {}
          /\ \E p \in DOMAIN out :
                out[p].kind = "files_header" /\ out[p].dir = model_dirs[k]
    /\ results # <<>>

\* -------------------------------------------------------------------- C6
\* C6: a configured path that does not exist has no key in the summary and
\* no line of the output names it; every key of the summary is the name of
\* a configured path that exists; while only missing paths have been met,
\* nothing has been printed or recorded.
C6_MissingDirSkipped ==
    /\ \A d \in Dirs :
          fs[d].kind = "missing"
          => /\ EntriesFor(d) = {}
             /\ \A p \in DOMAIN out :
                   out[p].key # ModelName(d) /\ out[p].dir # d
    /\ \A e \in Range(results) :
          \E d \in Dirs : fs[d].kind # "missing" /\ e.key = ModelName(d)
    /\ (pc = "loop" /\ \A j \in 1..(i - 1) : fs[model_dirs[j]].kind = "missing")
       => out = <<>> /\ results = <<>>

C6_Witness ==
    /\ pc = "done"
    /\ fs[model_dirs[1]].kind = "missing"
    /\ results # <<>>
    /\ \E p \in DOMAIN out : out[p].kind = "files_header"

\* -------------------------------------------------------------------- C7
\* C7: a recorded summary entry names the sub-model at the first position,
\* in the mapping's order, that holds the maximal f1_score.
C7_FirstMaxWins ==
    \A k \in DOMAIN model_dirs :
        LET d == model_dirs[k] IN
        \A e \in EntriesFor(d) :
            /\ HasMapping(fs[d])
            /\ F1Items(ArtifactOf(fs[d])) # {}
            /\ F1Numeric(ArtifactOf(fs[d]))
            /\ e.info["model_name"]
                 = Str(ArtifactOf(fs[d]).items[FirstMax(ArtifactOf(fs[d]))].name)

\* Two sub-models tie at the maximum, and the first of them has the
\* lexicographically larger name.
C7_Witness ==
    \E k \in DOMAIN model_dirs :
        LET d == model_dirs[k] IN
        /\ HasMapping(fs[d])
        /\ LET art == ArtifactOf(fs[d]) IN
           /\ F1Items(art) # {}
           /\ F1Numeric(art)
           /\ \E j1 \in F1Items(art), j2 \in F1Items(art) :
                 /\ j1 < j2
                 /\ F1At(art, j1) = MaxF1(art)
                 /\ F1At(art, j2) = MaxF1(art)
                 /\ art.items[j1].name = "B"
                 /\ art.items[j2].name = "A"
           /\ \E e \in EntriesFor(d) : e.info["model_name"] = Str("B")

\* -------------------------------------------------------------------- C8
\* The lines of a step end with the listing of the directory at hand: the
\* header naming it, then one line per entry, each entry once, in strictly
\* ascending order; no listing line comes before the header.
ListingAtEnd ==
    LET n == Cardinality(Cur.files)
        h == Len(NewLines) - n
    IN /\ h >= 1
       /\ NewLines[h].kind = "files_header"
       /\ NewLines[h].dir = model_dirs[i]
       /\ \A p \in 1..(h - 1) : NewLines[p].kind \notin {"files_header", "file"}
       /\ \A q \in 1..n : NewLines[h + q].kind = "file"
       /\ {NewLines[h + q].file : q \in 1..n} = Cur.files
       /\ \A q \in 1..(n - 1) : LexBefore(NewLines[h + q].file, NewLines[h + q + 1].file)

ListingHeaders(d) ==
    {p \in DOMAIN out : out[p].kind = "files_header" /\ out[p].dir = d}

\* C8: every step that processes an existing directory prints its listing
\* section last, after the directory's metrics or error lines, with the
\* entries sorted; the output holds exactly one listing header for each
\* directory processed so far and none for the others.
C8_ListingOncePerDir ==
    /\ [][ (InLoop /\ Cur.kind = "dir") => (GoesOn /\ ListingAtEnd) ]_vars
    /\ [](\A k \in DOMAIN model_dirs :
            Cardinality(ListingHeaders(model_dirs[k]))
              = IF k < i /\ fs[model_dirs[k]].kind = "dir" THEN 1 ELSE 0)

\* A finished run that met a directory without results file, or one whose
\* load failed, and one with a recorded entry.
C8_Witness ==
    /\ pc = "done"
    /\ \E k \in DOMAIN model_dirs :
          /\ fs[model_dirs[k]].kind = "dir"
          /\ EntriesFor(model_dirs[k]) = {}
          /\ Cardinality(ListingHeaders(model_dirs[k])) = 1
    /\ \E k \in DOMAIN model_dirs :
          /\ EntriesFor(model_dirs[k]) # {}
          /\ Cardinality(ListingHeaders(model_dirs[k])) = 1
    /\ \E p \in DOMAIN out : out[p].kind = "error"

\* -------------------------------------------------------------------- C9
\* C9: two invocations over the same filesystem write the same summary.
C9_SameSummaryTwice == Len(writes) >= 2 => writes[1] = writes[2]

\* ------------------------------------------------------------------- C10
SummaryKeys ==
    {"model_name", "accuracy", "precision", "recall", "f1_score", "roc_auc",
     "cv_mean", "cv_std"}

\* The entry holds the name and the metrics of item, 0 for a missing field.
TakenFrom(info, item) ==
    /\ item.metrics.isdict
    /\ info["model_name"] = Str(item.name)
    /\ \A key \in SummaryKeys \ {"model_name"} :
          info[key] = IF key \in DOMAIN item.metrics.d
                      THEN item.metrics.d[key] ELSE Num(0)

\* C10: every summary entry has exactly the eight keys, all taken from one
\* sub-model's record of that directory's mapping, with 0 for each metric
\* field the record lacks.
C10_EntryShape ==
    \A k \in DOMAIN results :
        /\ DOMAIN results[k].info = SummaryKeys
        /\ \E d \in Dirs :
              /\ ModelName(d) = results[k].key
              /\ HasMapping(fs[d])
              /\ \E j \in DOMAIN ArtifactOf(fs[d]).items :
                    TakenFrom(results[k].info, ArtifactOf(fs[d]).items[j])

\* The selected record holds f1_score alone and follows a record that was
\* selected before it and holds accuracy.
C10_Witness ==
    \E k \in DOMAIN results, d \in Dirs :
        /\ ModelName(d) = results[k].key
        /\ HasMapping(fs[d])
        /\ LET items == ArtifactOf(fs[d]).items IN
           \E j1 \in DOMAIN items, j2 \in DOMAIN items :
              /\ j1 < j2
              /\ IsF1Item(items[j1])
              /\ "accuracy" \in DOMAIN items[j1].metrics.d
              /\ items[j1].metrics.d["f1_score"] = Num(1)
              /\ DOMAIN items[j2].metrics.d = {"f1_score"}
              /\ TakenFrom(results[k].info, items[j2])
              /\ results[k].info["accuracy"] = Num(0)

====
